---- MODULE Spec2Model ----
(***************************************************************************)
(* Boundary-tag allocator (src/allocator.c): implicit free list, first-fit *)
(* search with splitting, immediate four-way coalescing.                   *)
(*                                                                         *)
(* The heap is modelled as the array of 16-bit words the code reads and    *)
(* writes through raw_boundary_t pointers, indexed by even byte offsets    *)
(* from alloc->heap.  Words the allocator has stopped using keep their     *)
(* last contents (stale headers and footers), as they do in memory.        *)
(* Pointers are byte offsets from alloc->heap.                             *)
(*                                                                         *)
(* The heap capacity is HeapUnits alignment units instead of the 512 of    *)
(* the reference configuration; every offset the code derives from         *)
(* HEAP_SIZE (the epilogue at HEAP_SIZE - HEAP_ALIGN, the largest request  *)
(* HEAP_SIZE - HEAP_ALIGN - 2) is derived in the same way here.            *)
(***************************************************************************)
EXTENDS Integers, FiniteSets, Sequences, TLC

\* ------------------------------------------------------------------ bounds
HeapUnits == 6
MaxOps == 3

\* --------------------------------------------------------------- constants
HEAP_ALIGN == 8
HEAP_SIZE == HeapUnits * HEAP_ALIGN
TagSize == 2
NULL == -1

Epilogue == HEAP_SIZE - HEAP_ALIGN
MaxRequest == Epilogue - TagSize
Offsets == {o \in 0..(HEAP_SIZE - 1) : o % TagSize = 0}
MaxWalk == HEAP_SIZE \div HEAP_ALIGN

u16(x) == x % 65536

\* ------------------------------------------------------ boundary tag codec
unpack(raw) ==
    [length |-> raw \div 4, p_alloc |-> (raw \div 2) % 2 = 1, alloc |-> raw % 2 = 1]

bit(b) == IF b THEN 1 ELSE 0

pack(boundary) ==
    u16(boundary.length * 4 + 2 * bit(boundary.p_alloc) + bit(boundary.alloc))

put_header(h, ptr, boundary) == [h EXCEPT ![ptr] = pack(boundary)]

put_footer(h, ptr, boundary) ==
    [h EXCEPT ![ptr + boundary.length - TagSize] = pack(boundary)]

\* Mutant: the footer of a free block is never written.
put_boundaries_header_only(h, ptr, boundary) == put_header(h, ptr, boundary)

\* Mutant: the footer is written for allocated blocks too.
put_boundaries_always_footer(h, ptr, boundary) ==
    put_footer(put_header(h, ptr, boundary), ptr, boundary)

put_boundaries(h, ptr, boundary) ==
    IF ~boundary.alloc
    THEN put_footer(put_header(h, ptr, boundary), ptr, boundary)
    ELSE put_header(h, ptr, boundary)

\* ---------------------------------------------------------------- lifecycle
\* Mutant: the deallocation count survives a reset.
allocator_reset_keep_deallocations(a) ==
    LET boundary == [length |-> HEAP_SIZE - HEAP_ALIGN, p_alloc |-> TRUE, alloc |-> FALSE]
        epi_boundary == [length |-> HEAP_ALIGN, p_alloc |-> FALSE, alloc |-> TRUE]
        h1 == put_boundaries(a.heap, 0, boundary)
        h2 == put_boundaries(h1, HEAP_SIZE - HEAP_ALIGN, epi_boundary)
    IN [heap |-> h2, available |-> HEAP_SIZE - HEAP_ALIGN,
        allocations |-> 0,
        deallocations |-> IF "deallocations" \in DOMAIN a THEN a.deallocations ELSE 0,
        l_coalesce |-> 0, r_coalesce |-> 0, lr_coalesce |-> 0]

allocator_reset(a) ==
    LET boundary == [length |-> HEAP_SIZE - HEAP_ALIGN, p_alloc |-> TRUE, alloc |-> FALSE]
        epi_boundary == [length |-> HEAP_ALIGN, p_alloc |-> FALSE, alloc |-> TRUE]
        h1 == put_boundaries(a.heap, 0, boundary)
        h2 == put_boundaries(h1, HEAP_SIZE - HEAP_ALIGN, epi_boundary)
    IN [heap |-> h2, available |-> HEAP_SIZE - HEAP_ALIGN,
        allocations |-> 0, deallocations |-> 0,
        l_coalesce |-> 0, r_coalesce |-> 0, lr_coalesce |-> 0]

\* Mmap returns a zero-filled region; allocator_reset then lays out the heap.
allocator_init ==
    allocator_reset([heap |-> [o \in Offsets |-> 0]])

\* ---------------------------------------------------------- integrity check
\* The loop of allocator_check from offset `current`, with `p_alloc` the
\* allocated flag of the block before it; FALSE when an assertion fails.
\* The loop runs over the epilogue too.
RECURSIVE check_walk(_, _, _)
check_walk(h, current, p_alloc) ==
    IF ~(current < HEAP_SIZE)
    THEN TRUE
    ELSE LET boundary == unpack(h[current])
             footer_ptr == current + boundary.length - TagSize
         IN /\ boundary.length # 0
            /\ boundary.length % HEAP_ALIGN = 0
            /\ boundary.p_alloc = p_alloc
            /\ ~boundary.alloc => footer_ptr \in Offsets /\ h[current] = h[footer_ptr]
            /\ check_walk(h, current + boundary.length, boundary.alloc)

\* TRUE when allocator_check returns, FALSE when one of its assertions fails.
allocator_check(a) ==
    LET epi_boundary == unpack(a.heap[HEAP_SIZE - HEAP_ALIGN]) IN
    /\ check_walk(a.heap, 0, TRUE)
    /\ epi_boundary.length = HEAP_ALIGN
    /\ epi_boundary.alloc

\* ------------------------------------------------------------------ padding
\* Mutant: the remainder itself is used as the padding.
padding_remainder(length) == length % HEAP_ALIGN

padding(length) ==
    IF length % HEAP_ALIGN = 0 THEN 0 ELSE u16(HEAP_ALIGN - (length % HEAP_ALIGN))

pad_length(length) == u16(length + padding(length))

\* Mutant: the next block's prev-allocated flag is never propagated.
update_p_alloc_skip(h, ptr, boundary) == h

\* Mutant: the flag is stored in the next block's allocated field.
update_p_alloc_wrong_field(h, ptr, boundary) ==
    IF HEAP_SIZE <= ptr + boundary.length
    THEN h
    ELSE LET n_boundary_ptr == ptr + boundary.length
             n_boundary == [unpack(h[n_boundary_ptr]) EXCEPT !.alloc = boundary.alloc]
         IN put_boundaries(h, n_boundary_ptr, n_boundary)

update_p_alloc(h, ptr, boundary) ==
    IF HEAP_SIZE <= ptr + boundary.length
    THEN h
    ELSE LET n_boundary_ptr == ptr + boundary.length
             n_boundary == [unpack(h[n_boundary_ptr]) EXCEPT !.p_alloc = boundary.alloc]
         IN put_boundaries(h, n_boundary_ptr, n_boundary)

\* ---------------------------------------------------------------- allocate
\* The search loop of allocate.  `length` is the loop's running request: it
\* is re-padded each time a free block is examined.  `fuel` bounds the walk;
\* a walk that exhausts it does not terminate in the code.
\* Mutant: the search does not skip allocated blocks.
RECURSIVE find_block_any(_, _, _, _)
find_block_any(h, current, length, fuel) ==
    IF ~(current < HEAP_SIZE - HEAP_ALIGN)
    THEN [found |-> FALSE, hang |-> FALSE, current |-> current, length |-> length]
    ELSE IF fuel = 0
    THEN [found |-> FALSE, hang |-> TRUE, current |-> current, length |-> length]
    ELSE LET boundary == unpack(h[current])
             padded == pad_length(u16(length + TagSize))
         IN IF boundary.length < padded
            THEN find_block_any(h, current + boundary.length, padded, fuel - 1)
            ELSE [found |-> TRUE, hang |-> FALSE, current |-> current, length |-> padded]

\* Mutant: the search takes the first free block whatever its length.
RECURSIVE find_block_no_size(_, _, _, _)
find_block_no_size(h, current, length, fuel) ==
    IF ~(current < HEAP_SIZE - HEAP_ALIGN)
    THEN [found |-> FALSE, hang |-> FALSE, current |-> current, length |-> length]
    ELSE IF fuel = 0
    THEN [found |-> FALSE, hang |-> TRUE, current |-> current, length |-> length]
    ELSE LET boundary == unpack(h[current]) IN
         IF boundary.alloc
         THEN find_block_no_size(h, current + boundary.length, length, fuel - 1)
         ELSE [found |-> TRUE, hang |-> FALSE, current |-> current,
               length |-> pad_length(u16(length + TagSize))]

RECURSIVE find_block(_, _, _, _)
find_block(h, current, length, fuel) ==
    IF ~(current < HEAP_SIZE - HEAP_ALIGN)
    THEN [found |-> FALSE, hang |-> FALSE, current |-> current, length |-> length]
    ELSE IF fuel = 0
    THEN [found |-> FALSE, hang |-> TRUE, current |-> current, length |-> length]
    ELSE LET boundary == unpack(h[current]) IN
         IF boundary.alloc
         THEN find_block(h, current + boundary.length, length, fuel - 1)
         ELSE LET padded == pad_length(u16(length + TagSize)) IN
              IF boundary.length < padded
              THEN find_block(h, current + boundary.length, padded, fuel - 1)
              ELSE [found |-> TRUE, hang |-> FALSE, current |-> current, length |-> padded]

\* Mutant: taking a block whole does not count as an allocation.
take_whole_no_count(a, current, boundary0) ==
    LET boundary == [boundary0 EXCEPT !.alloc = TRUE]
        h1 == put_boundaries(a.heap, current, boundary)
        h2 == update_p_alloc(h1, current, boundary)
    IN [alloc |-> [a EXCEPT !.heap = h2,
                            !.available = a.available - boundary.length],
        ret |-> current + TagSize]

\* Lines 219-227: the free block is taken whole.
take_whole(a, current, boundary0) ==
    LET boundary == [boundary0 EXCEPT !.alloc = TRUE]
        h1 == put_boundaries(a.heap, current, boundary)
        h2 == update_p_alloc(h1, current, boundary)
    IN [alloc |-> [a EXCEPT !.heap = h2,
                            !.available = a.available - boundary.length,
                            !.allocations = a.allocations + 1],
        ret |-> current + TagSize]

\* Lines 229-244: the free block is split.
split_block(a, current, boundary0, length) ==
    LET n_boundary == [length |-> u16(boundary0.length - length),
                       p_alloc |-> TRUE, alloc |-> FALSE]
        h1 == put_boundaries(a.heap, current + length, n_boundary)
        boundary == [boundary0 EXCEPT !.length = length, !.alloc = TRUE]
        h2 == put_boundaries(h1, current, boundary)
    IN [alloc |-> [a EXCEPT !.heap = h2,
                            !.available = a.available - boundary.length,
                            !.allocations = a.allocations + 1],
        ret |-> current + TagSize]

\* The call allocate(a, length) never returns: its search loop stops
\* advancing.  allocate below gives the result of the calls that return.
allocate_hangs(a, length) ==
    length # 0 /\ find_block(a.heap, 0, length, MaxWalk).hang

\* Mutant: a request of length 0 is not ignored.
allocate_no_zero_check(a, length) ==
    LET f == find_block(a.heap, 0, length, MaxWalk) IN
    IF ~f.found
    THEN [alloc |-> a, ret |-> NULL]
    ELSE LET boundary == unpack(a.heap[f.current]) IN
         IF boundary.length - f.length <= TagSize * 2
         THEN take_whole(a, f.current, boundary)
         ELSE split_block(a, f.current, boundary, f.length)

allocate(a, length) ==
    IF length = 0
    THEN [alloc |-> a, ret |-> NULL]
    ELSE LET f == find_block(a.heap, 0, length, MaxWalk) IN
         IF ~f.found
         THEN [alloc |-> a, ret |-> NULL]
         ELSE LET boundary == unpack(a.heap[f.current]) IN
              IF boundary.length - f.length <= TagSize * 2
              THEN take_whole(a, f.current, boundary)
              ELSE split_block(a, f.current, boundary, f.length)

\* -------------------------------------------------------------- deallocate
\* Lines 276-281: both neighbours allocated.
free_none(a, boundary_ptr, boundary0) ==
    LET boundary == [boundary0 EXCEPT !.alloc = FALSE]
        h1 == put_boundaries(a.heap, boundary_ptr, boundary)
        h2 == update_p_alloc(h1, boundary_ptr, boundary)
    IN [alloc |-> [a EXCEPT !.heap = h2], boundary |-> boundary]

\* Mutant: the merged block keeps the freed block's prev-allocated flag
\* instead of inheriting the predecessor's.
free_left_keep_flag(a, boundary_ptr, boundary0) ==
    LET p_boundary == unpack(a.heap[boundary_ptr - TagSize])
        p_boundary_ptr == (boundary_ptr - TagSize - p_boundary.length) + TagSize
        boundary == [length |-> u16(boundary0.length + p_boundary.length),
                     p_alloc |-> boundary0.p_alloc, alloc |-> FALSE]
        h1 == put_boundaries(a.heap, p_boundary_ptr, boundary)
        h2 == update_p_alloc(h1, p_boundary_ptr, boundary)
    IN [alloc |-> [a EXCEPT !.heap = h2, !.l_coalesce = a.l_coalesce + 1],
        boundary |-> boundary]

\* Lines 285-299: previous block free, next allocated.
free_left(a, boundary_ptr, boundary0) ==
    LET p_boundary == unpack(a.heap[boundary_ptr - TagSize])
        p_boundary_ptr == (boundary_ptr - TagSize - p_boundary.length) + TagSize
        boundary == [length |-> u16(boundary0.length + p_boundary.length),
                     p_alloc |-> p_boundary.p_alloc, alloc |-> FALSE]
        h1 == put_boundaries(a.heap, p_boundary_ptr, boundary)
        h2 == update_p_alloc(h1, p_boundary_ptr, boundary)
    IN [alloc |-> [a EXCEPT !.heap = h2, !.l_coalesce = a.l_coalesce + 1],
        boundary |-> boundary]

\* Mutant: the freed block is not merged with its free successor.
free_right_no_merge(a, boundary_ptr, boundary0, n_boundary) ==
    LET boundary == [boundary0 EXCEPT !.alloc = FALSE]
        h1 == put_boundaries(a.heap, boundary_ptr, boundary)
        h2 == update_p_alloc(h1, boundary_ptr, boundary)
    IN [alloc |-> [a EXCEPT !.heap = h2, !.r_coalesce = a.r_coalesce + 1],
        boundary |-> boundary]

\* Lines 303-310: previous block allocated, next free.
free_right(a, boundary_ptr, boundary0, n_boundary) ==
    LET boundary == [boundary0 EXCEPT !.length = u16(boundary0.length + n_boundary.length),
                                      !.alloc = FALSE]
        h1 == put_boundaries(a.heap, boundary_ptr, boundary)
    IN [alloc |-> [a EXCEPT !.heap = h1, !.r_coalesce = a.r_coalesce + 1],
        boundary |-> boundary]

\* Mutant: merging with both neighbours is counted as a left coalescing.
free_both_count_left(a, boundary_ptr, boundary0, n_boundary) ==
    LET p_boundary == unpack(a.heap[boundary_ptr - TagSize])
        p_boundary_ptr == (boundary_ptr - TagSize - p_boundary.length) + TagSize
        boundary == [length |-> u16(boundary0.length
                                    + u16(p_boundary.length + n_boundary.length)),
                     p_alloc |-> p_boundary.p_alloc, alloc |-> FALSE]
        h1 == put_boundaries(a.heap, p_boundary_ptr, boundary)
    IN [alloc |-> [a EXCEPT !.heap = h1, !.l_coalesce = a.l_coalesce + 1],
        boundary |-> boundary]

\* Lines 313-327: both neighbours free.
free_both(a, boundary_ptr, boundary0, n_boundary) ==
    LET p_boundary == unpack(a.heap[boundary_ptr - TagSize])
        p_boundary_ptr == (boundary_ptr - TagSize - p_boundary.length) + TagSize
        boundary == [length |-> u16(boundary0.length
                                    + u16(p_boundary.length + n_boundary.length)),
                     p_alloc |-> p_boundary.p_alloc, alloc |-> FALSE]
        h1 == put_boundaries(a.heap, p_boundary_ptr, boundary)
    IN [alloc |-> [a EXCEPT !.heap = h1, !.lr_coalesce = a.lr_coalesce + 1],
        boundary |-> boundary]

deallocate(a, ptr) ==
    IF ptr = NULL
    THEN a
    ELSE LET boundary_ptr == ptr - TagSize
             boundary == unpack(a.heap[boundary_ptr])
         IN IF ~boundary.alloc
            THEN a
            ELSE IF boundary_ptr = HEAP_SIZE - HEAP_ALIGN
            THEN a
            ELSE LET n_boundary == unpack(a.heap[boundary_ptr + boundary.length])
                     r == IF boundary.p_alloc /\ n_boundary.alloc
                          THEN free_none(a, boundary_ptr, boundary)
                          ELSE IF ~boundary.p_alloc /\ n_boundary.alloc
                          THEN free_left(a, boundary_ptr, boundary)
                          ELSE IF boundary.p_alloc /\ ~n_boundary.alloc
                          THEN free_right(a, boundary_ptr, boundary, n_boundary)
                          ELSE free_both(a, boundary_ptr, boundary, n_boundary)
                 IN [r.alloc EXCEPT !.deallocations = r.alloc.deallocations + 1,
                                    !.available = r.alloc.available + r.boundary.length]

\* ------------------------------------------------------------ state machine
\* alloc   the allocator_t: the heap words and the statistics counters
\* ptrs    the caller's live allocations: pointer and the length requested
\* freed   pointers the caller has deallocated and not been handed again
\* calls   successful allocations so far (not cleared by a reset)
\* misuse  the kind of the most recent misusing call, "none" before any
VARIABLES alloc, ptrs, freed, calls, misuse

vars == <<alloc, ptrs, freed, calls, misuse>>

\* Requested lengths: the smallest request and, for every block size, the
\* largest request that fits it and the smallest that needs the next size.
Requests ==
    {n \in 1..MaxRequest : n = 1 \/ n % HEAP_ALIGN \in {HEAP_ALIGN - 2, HEAP_ALIGN - 1}}

\* Requested lengths the heap cannot hold, up to the largest uint16_t: the
\* smallest such length and the lengths around which length + 2 and its
\* round-up pass 65536.
BigRequests == {MaxRequest + 1, 65526, 65527, 65534, 65535}

LivePtrs == {l.ptr : l \in ptrs}

Init ==
    /\ alloc = allocator_init
    /\ ptrs = {}
    /\ freed = {}
    /\ calls = 0
    /\ misuse = "none"

Allocate(length) ==
    LET r == allocate(alloc, length) IN
    /\ r.ret = NULL \/ calls < MaxOps
    /\ alloc' = r.alloc
    /\ ptrs' = IF r.ret = NULL THEN ptrs
               ELSE ptrs \cup {[ptr |-> r.ret, length |-> length]}
    /\ freed' = freed \ {r.ret}
    /\ calls' = IF r.ret = NULL THEN calls ELSE calls + 1
    /\ UNCHANGED misuse

Deallocate(ptr) ==
    /\ alloc' = deallocate(alloc, ptr)
    /\ ptrs' = {l \in ptrs : l.ptr # ptr}
    /\ freed' = freed \cup {ptr}
    /\ UNCHANGED <<calls, misuse>>

Reset ==
    /\ alloc' = allocator_reset(alloc)
    /\ ptrs' = {}
    /\ freed' = {}
    /\ UNCHANGED <<calls, misuse>>

\* deallocate called on the epilogue's payload pointer.
DeallocateEpilogue ==
    /\ alloc' = deallocate(alloc, (HEAP_SIZE - HEAP_ALIGN) + TagSize)
    /\ misuse' = "epilogue"
    /\ UNCHANGED <<ptrs, freed, calls>>

\* deallocate called again on a pointer already deallocated.
DoubleFree(ptr) ==
    /\ alloc.deallocations <= MaxOps
    /\ alloc' = deallocate(alloc, ptr)
    /\ misuse' = "double"
    /\ UNCHANGED <<ptrs, freed, calls>>

\* allocate called with a requested length of 0.
AllocateZero ==
    /\ alloc' = allocate(alloc, 0).alloc
    /\ misuse' = "zero"
    /\ UNCHANGED <<ptrs, freed, calls>>

\* deallocate called on a null pointer.
DeallocateNull ==
    /\ alloc' = deallocate(alloc, NULL)
    /\ misuse' = "null"
    /\ UNCHANGED <<ptrs, freed, calls>>

\* allocate called in a state where its search loop never ends: the caller
\* gets no result and makes no further call.
AllocateHang(length) ==
    /\ allocate_hangs(alloc, length)
    /\ misuse' = "hang"
    /\ UNCHANGED <<alloc, ptrs, freed, calls>>

\* The sequences of blocks, each a length and an allocated flag, that tile
\* `units` alignment units.
RECURSIVE Layouts(_)
Layouts(units) ==
    IF units = 0 THEN {<<>>}
    ELSE UNION {{<<[length |-> u * HEAP_ALIGN, alloc |-> b]>> \o rest :
                    rest \in Layouts(units - u)} :
                u \in 1..units, b \in BOOLEAN}

\* The heap words of a layout laid out from offset `current`: every block
\* gets its header, with the prev-allocated flag of its predecessor, a free
\* block gets its footer, and the epilogue follows the last block.
RECURSIVE LayoutHeap(_, _, _, _)
LayoutHeap(h, layout, current, p_alloc) ==
    IF layout = <<>>
    THEN put_boundaries(h, current,
                        [length |-> HEAP_ALIGN, p_alloc |-> p_alloc, alloc |-> TRUE])
    ELSE LayoutHeap(put_boundaries(h, current,
                                   [length |-> Head(layout).length, p_alloc |-> p_alloc,
                                    alloc |-> Head(layout).alloc]),
                    Tail(layout), current + Head(layout).length, Head(layout).alloc)

\* Heaps handed to the integrity check: every tiling of the heap by free
\* and allocated blocks with consistent tags, adjacent free blocks
\* included, intact or with one word cleared.
CheckedHeaps ==
    {[LayoutHeap([w \in Offsets |-> 0], layout, 0, TRUE) EXCEPT ![o] = IF clear THEN 0 ELSE @] :
        layout \in Layouts(HeapUnits - 1), o \in Offsets, clear \in BOOLEAN}

InitCheck ==
    /\ alloc \in {[allocator_init EXCEPT !.heap = h] : h \in CheckedHeaps}
    /\ ptrs = {}
    /\ freed = {}
    /\ calls = 0
    /\ misuse = "none"

\* allocator_check called on the heap; its outcome is recorded.
Check ==
    /\ misuse = "none"
    /\ misuse' = IF allocator_check(alloc) THEN "check returned" ELSE "check asserted"
    /\ UNCHANGED <<alloc, ptrs, freed, calls>>

Next ==
    \/ \E length \in Requests : Allocate(length)
    \/ \E ptr \in LivePtrs : Deallocate(ptr)
    \/ Reset

NextEpilogue ==
    \/ Next
    \/ DeallocateEpilogue

NextDoubleFree ==
    \/ Next
    \/ \E ptr \in freed : DoubleFree(ptr)

NextNoop ==
    \/ Next
    \/ AllocateZero
    \/ DeallocateNull
    \/ DeallocateEpilogue

\* Requests of any uint16_t length.  A pointer whose block records length 0
\* is not deallocated: that call writes a footer in front of the block,
\* which for a block at the heap start is outside the mapped region.
NextBig ==
    \/ \E length \in Requests \cup BigRequests :
          misuse # "hang" /\ ~allocate_hangs(alloc, length) /\ Allocate(length)
    \/ \E length \in Requests \cup BigRequests :
          misuse # "hang" /\ AllocateHang(length)
    \/ \E ptr \in LivePtrs :
          /\ misuse # "hang"
          /\ unpack(alloc.heap[ptr - TagSize]).length # 0
          /\ Deallocate(ptr)
    \/ misuse # "hang" /\ Reset

Spec == Init /\ [][Next]_vars

SpecEpilogue == Init /\ [][NextEpilogue]_vars

SpecDoubleFree == Init /\ [][NextDoubleFree]_vars

SpecNoop == Init /\ [][NextNoop]_vars

SpecBig == Init /\ [][NextBig]_vars

SpecCheck == InitCheck /\ [][Check]_vars

\* ------------------------------------------------------------- heap views
\* The blocks met walking from the heap start and advancing by each block's
\* recorded length, as in the loop of allocator_check.  The walk stops at
\* the epilogue, at a zero length, or when it leaves the word grid.
RECURSIVE Walk(_, _, _)
Walk(h, current, fuel) ==
    IF current >= Epilogue \/ current \notin Offsets \/ fuel = 0
    THEN <<>>
    ELSE LET b == unpack(h[current]) IN
         <<[start |-> current, length |-> b.length,
            p_alloc |-> b.p_alloc, alloc |-> b.alloc]>>
         \o (IF b.length = 0 THEN <<>> ELSE Walk(h, current + b.length, fuel - 1))

Blocks == Walk(alloc.heap, 0, HEAP_SIZE)

\* Where the walk arrives: the offset after the last block it met.
WalkEnd ==
    IF Blocks = <<>> THEN 0
    ELSE Blocks[Len(Blocks)].start + Blocks[Len(Blocks)].length

EpilogueTag == unpack(alloc.heap[Epilogue])

\* The header of the block that follows block i of the walk.
NextTag(i) ==
    IF i < Len(Blocks) THEN unpack(alloc.heap[Blocks[i + 1].start]) ELSE EpilogueTag

\* -------------------------------------------------------------- properties

\* C1: walking from the heap start by recorded lengths arrives exactly at
\* the epilogue's offset, and every length met is positive and a multiple
\* of the alignment unit.
C1_Tiling ==
    /\ WalkEnd = Epilogue
    /\ \A i \in 1..Len(Blocks) :
          Blocks[i].length > 0 /\ Blocks[i].length % HEAP_ALIGN = 0

\* C1 witness: after allocations and a deallocation the heap holds at least
\* three blocks before the epilogue.
C1_Witness ==
    /\ Len(Blocks) >= 3
    /\ alloc.deallocations >= 1
    /\ WalkEnd = Epilogue

\* C2: every block's allocated flag equals the prev-allocated flag in the
\* header of the block that follows it (the epilogue for the last block),
\* and the first block's prev-allocated flag is true.
C2_PrevAllocConsistent ==
    /\ Blocks # <<>>
    /\ Blocks[1].p_alloc
    /\ \A i \in 1..Len(Blocks) : NextTag(i).p_alloc = Blocks[i].alloc

\* C2 witness: a right-only coalescing has happened and left a free block
\* that is followed by another block before the epilogue.
C2_Witness ==
    /\ alloc.r_coalesce >= 1
    /\ \E i \in 1..(Len(Blocks) - 1) :
          ~Blocks[i].alloc /\ ~NextTag(i).p_alloc

\* C3: no two adjacent blocks are both free.
C3_NoAdjacentFree ==
    \A i \in 1..(Len(Blocks) - 1) : Blocks[i].alloc \/ Blocks[i + 1].alloc

\* C3 witness: after a deallocation, a free block lies between two
\* allocated blocks.
C3_Witness ==
    /\ alloc.deallocations >= 1
    /\ \E i \in 2..(Len(Blocks) - 1) :
          ~Blocks[i].alloc /\ Blocks[i - 1].alloc /\ Blocks[i + 1].alloc

\* C4: the footer word of every free block equals its header word.
C4_FooterEqualsHeader ==
    \A i \in 1..Len(Blocks) :
        ~Blocks[i].alloc =>
            /\ Blocks[i].length >= 2 * TagSize
            /\ alloc.heap[Blocks[i].start + Blocks[i].length - TagSize]
                   = alloc.heap[Blocks[i].start]

\* C4 witness: a split and a left coalescing have happened and a free block
\* is followed by an allocated one.
C4_Witness ==
    /\ alloc.l_coalesce >= 1
    /\ \E i \in 1..(Len(Blocks) - 1) : ~Blocks[i].alloc /\ Blocks[i + 1].alloc

\* C5: the epilogue's tag keeps length HEAP_ALIGN and allocated = true
\* through allocate, deallocate of live pointers, deallocate of the
\* epilogue's own payload pointer, and reset; no block before it extends
\* over it.
C5_EpilogueFixed ==
    /\ EpilogueTag.length = HEAP_ALIGN
    /\ EpilogueTag.alloc
    /\ WalkEnd = Epilogue

\* C5 witness: deallocate has been called on the epilogue's pointer, a reset
\* has happened after earlier allocations, and an allocation since the reset
\* has taken the block before the epilogue, rewriting the epilogue's header.
C5_Witness ==
    /\ misuse = "epilogue"
    /\ calls > alloc.allocations
    /\ alloc.allocations >= 1
    /\ EpilogueTag.p_alloc

\* The header of the block a live pointer belongs to.
HeaderOf(ptr) == unpack(alloc.heap[ptr - TagSize])

\* C6: the blocks of two live allocations never intersect, and each live
\* pointer's block is marked allocated with room for the requested length.
C6_NoOverlap ==
    /\ \A l \in ptrs :
          /\ HeaderOf(l.ptr).alloc
          /\ HeaderOf(l.ptr).length - TagSize >= l.length
    /\ \A l1, l2 \in ptrs :
          l1 # l2 =>
             \/ (l1.ptr - TagSize) + HeaderOf(l1.ptr).length <= l2.ptr - TagSize
             \/ (l2.ptr - TagSize) + HeaderOf(l2.ptr).length <= l1.ptr - TagSize

\* C6 witness: two allocations are live at once, the second handed out
\* after a deallocation left a free block in front of the first.
C6_Witness ==
    /\ Cardinality(ptrs) >= 2
    /\ alloc.deallocations >= 1
    /\ ~Blocks[1].alloc

InitialLayout ==
    /\ Blocks = <<[start |-> 0, length |-> HEAP_SIZE - HEAP_ALIGN,
                   p_alloc |-> TRUE, alloc |-> FALSE]>>
    /\ alloc.heap[HEAP_SIZE - HEAP_ALIGN - TagSize] = alloc.heap[0]
    /\ EpilogueTag = [length |-> HEAP_ALIGN, p_alloc |-> FALSE, alloc |-> TRUE]

\* C7: once every live pointer has been deallocated the heap is back in
\* its initial layout: one free block and the epilogue.
C7_FullReclaim == (ptrs = {}) => InitialLayout

\* C7 witness: every pointer handed out (the whole allocation budget, one
\* both-sided coalescing among the deallocations) has been deallocated.
C7_Witness ==
    /\ ptrs = {}
    /\ alloc.allocations = MaxOps
    /\ alloc.deallocations = MaxOps
    /\ alloc.lr_coalesce >= 1

RECURSIVE SumLengths(_, _)
SumLengths(blocks, allocated) ==
    IF blocks = <<>> THEN 0
    ELSE (IF Head(blocks).alloc = allocated THEN Head(blocks).length ELSE 0)
         + SumLengths(Tail(blocks), allocated)

\* C8: available bytes plus the lengths of all allocated blocks equals the
\* heap capacity minus the epilogue; available bytes equals the free bytes.
C8_Conservation ==
    /\ alloc.available + SumLengths(Blocks, TRUE) = HEAP_SIZE - HEAP_ALIGN
    /\ alloc.available = SumLengths(Blocks, FALSE)

\* The position in `blocks` of the block that starts at offset `start`
\* (0 when no block starts there).
IndexOf(blocks, start) ==
    IF \E k \in 1..Len(blocks) : blocks[k].start = start
    THEN CHOOSE k \in 1..Len(blocks) : blocks[k].start = start
    ELSE 0

\* What C9 expects of a deallocate(ptr) that takes allocator state `a` to
\* `a2`, read off the blocks before the call: which counter moves, and the
\* start and length of the resulting free block.
CoalesceEffect(a, a2, ptr) ==
    LET before == Walk(a.heap, 0, HEAP_SIZE)
        after == Walk(a2.heap, 0, HEAP_SIZE)
        i == IndexOf(before, ptr - TagSize)
        predFree == i > 1 /\ ~before[i - 1].alloc
        succFree == i < Len(before) /\ ~before[i + 1].alloc
        start == IF predFree THEN before[i - 1].start ELSE before[i].start
        length == before[i].length
                  + (IF predFree THEN before[i - 1].length ELSE 0)
                  + (IF succFree THEN before[i + 1].length ELSE 0)
        j == IndexOf(after, start)
    IN /\ i >= 1
       /\ a2.l_coalesce = a.l_coalesce + bit(predFree /\ ~succFree)
       /\ a2.r_coalesce = a.r_coalesce + bit(~predFree /\ succFree)
       /\ a2.lr_coalesce = a.lr_coalesce + bit(predFree /\ succFree)
       /\ Len(after) = Len(before) - bit(predFree) - bit(succFree)
       /\ j >= 1
       /\ after[j].length = length
       /\ ~after[j].alloc

\* C9: a deallocate of a live pointer moves exactly the coalescing counter
\* of its case (none when both neighbours are allocated) and leaves one free
\* block spanning the freed block and its free neighbours.
C9_Coalescing ==
    \A l \in ptrs : CoalesceEffect(alloc, deallocate(alloc, l.ptr), l.ptr)

\* C9 witness: a deallocation without coalescing, a left coalescing and a
\* both-sided coalescing have all happened since the last reset.
C9_Witness ==
    /\ alloc.l_coalesce >= 1
    /\ alloc.lr_coalesce >= 1
    /\ alloc.deallocations > alloc.l_coalesce + alloc.r_coalesce + alloc.lr_coalesce

\* C10: a second deallocate of an already deallocated pointer changes no
\* block tag and no counter.
C10_DoubleFreeNoop ==
    [][\A ptr \in freed : DoubleFree(ptr) => alloc' = alloc]_vars

\* The block length a request of n bytes needs: the request plus the header
\* tag, rounded up to the alignment unit (computed once).
Required(n) == pad_length(u16(n + TagSize))

\* The positions in `blocks` of the free blocks of length at least R.
FreeFits(blocks, R) ==
    {i \in 1..Len(blocks) : ~blocks[i].alloc /\ blocks[i].length >= R}

\* The lowest-address free block of length at least R.
FirstFit(blocks, R) ==
    blocks[CHOOSE i \in FreeFits(blocks, R) : \A k \in FreeFits(blocks, R) : i <= k]

\* C11: whenever some free block has length at least the required length
\* of a request, allocate returns the payload start of the lowest-address
\* such block, however many smaller free blocks precede it.
C11_FirstFit ==
    \A n \in Requests :
        FreeFits(Blocks, Required(n)) # {} =>
            allocate(alloc, n).ret = FirstFit(Blocks, Required(n)).start + TagSize

\* C12: when no free block has length at least the required length of a
\* request, allocate returns none and changes no heap word and no counter.
C12_NoFitUnchanged ==
    \A n \in Requests :
        FreeFits(Blocks, Required(n)) = {} =>
            allocate(alloc, n) = [alloc |-> alloc, ret |-> NULL]

\* C12 witness: after a deallocation the heap holds a free block in front
\* of an allocated one, and some request fits no free block.
C12_Witness ==
    /\ alloc.deallocations >= 1
    /\ \E i \in 1..(Len(Blocks) - 1) : ~Blocks[i].alloc /\ Blocks[i + 1].alloc
    /\ \E n \in Requests : FreeFits(Blocks, Required(n)) = {}

\* C13: in every reachable state, allocate of length 0 returns none and
\* deallocate of a null pointer and of the epilogue's payload pointer
\* return, each leaving every heap word and every counter unchanged.
C13_IgnoredCalls ==
    /\ allocate(alloc, 0) = [alloc |-> alloc, ret |-> NULL]
    /\ deallocate(alloc, NULL) = alloc
    /\ deallocate(alloc, (HEAP_SIZE - HEAP_ALIGN) + TagSize) = alloc

\* C13 witness: one of the three ignored calls has just been made on a
\* heap that holds live allocations, a free block and moved counters.
C13_Witness ==
    /\ misuse \in {"zero", "null", "epilogue"}
    /\ ptrs # {}
    /\ alloc.deallocations >= 1
    /\ \E i \in 1..Len(Blocks) : ~Blocks[i].alloc

\* A word the caller stores in a payload: all bits set, which no tag with a
\* length that is a multiple of the alignment unit equals.
UserData == 65535

\* The heap words that hold bytes of the payload range [ptr, ptr + length).
PayloadWords(l) == {o \in Offsets : l.ptr <= o /\ o < l.ptr + l.length}

\* Allocator state `a` after the caller has filled the payload of l.
WithPayload(a, l) ==
    [a EXCEPT !.heap = [o \in Offsets |->
                            IF o \in PayloadWords(l) THEN UserData ELSE a.heap[o]]]

PayloadKept(a, l) == \A o \in PayloadWords(l) : a.heap[o] = UserData

\* C14: data the caller has written into the payload range of a live
\* allocation is read back unchanged after any later allocate and after a
\* deallocate of any other live pointer: neither writes a tag there.
C14_PayloadUntouched ==
    \A l \in ptrs :
        /\ \A n \in Requests :
              PayloadKept(allocate(WithPayload(alloc, l), n).alloc, l)
        /\ \A l2 \in ptrs \ {l} :
              PayloadKept(deallocate(WithPayload(alloc, l), l2.ptr), l)

\* C14 witness: a live allocation fills its block to the last byte, its
\* header has been rewritten by the deallocation of its predecessor, and
\* another allocation is live.
C14_Witness ==
    /\ Cardinality(ptrs) >= 2
    /\ \E l \in ptrs :
          /\ l.length = HeaderOf(l.ptr).length - TagSize
          /\ ~HeaderOf(l.ptr).p_alloc

\* The allocation and deallocation counts of allocator state `a`.
Counts(a) == <<a.allocations, a.deallocations>>

\* C15: the allocation count minus the deallocation count equals the
\* number of live pointers, and a failed allocate, an allocate of length 0
\* and a deallocate of a null pointer change neither count.
C15_CountsMatchLive ==
    /\ alloc.allocations - alloc.deallocations = Cardinality(ptrs)
    /\ \A n \in Requests :
          allocate(alloc, n).ret = NULL => Counts(allocate(alloc, n).alloc) = Counts(alloc)
    /\ Counts(allocate(alloc, 0).alloc) = Counts(alloc)
    /\ Counts(deallocate(alloc, NULL)) = Counts(alloc)

\* C15 witness: the whole allocation budget has been handed out since the
\* last reset, part of it deallocated again and part still live, some
\* request now fails, and the latest ignored call was an allocate of
\* length 0 or a deallocate of a null pointer.
C15_Witness ==
    /\ alloc.allocations = MaxOps
    /\ alloc.deallocations >= 1
    /\ ptrs # {}
    /\ \E n \in Requests : allocate(alloc, n).ret = NULL
    /\ misuse \in {"zero", "null"}

\* Allocator state `a` holds the two-block layout: one free block with
\* prev-allocated set spanning the heap up to the epilogue, its footer
\* equal to its header, and the epilogue tag.
TwoBlockLayout(a) ==
    /\ Walk(a.heap, 0, HEAP_SIZE)
          = <<[start |-> 0, length |-> HEAP_SIZE - HEAP_ALIGN,
               p_alloc |-> TRUE, alloc |-> FALSE]>>
    /\ a.heap[HEAP_SIZE - HEAP_ALIGN - TagSize] = a.heap[0]
    /\ unpack(a.heap[HEAP_SIZE - HEAP_ALIGN])
          = [length |-> HEAP_ALIGN, p_alloc |-> FALSE, alloc |-> TRUE]

\* The five event counts of allocator state `a` are zero.
EventCountsZero(a) ==
    /\ a.allocations = 0
    /\ a.deallocations = 0
    /\ a.l_coalesce = 0
    /\ a.r_coalesce = 0
    /\ a.lr_coalesce = 0

\* C16 as stated: from any reachable state, reset leaves the two-block
\* layout and sets every counter to zero, the available bytes included.
C16_ResetZeroesEveryCounter ==
    /\ TwoBlockLayout(allocator_reset(alloc))
    /\ EventCountsZero(allocator_reset(alloc))
    /\ allocator_reset(alloc).available = 0

\* C16 amended: from any reachable state, reset leaves the two-block
\* layout, sets the allocation, deallocation and three coalescing counts to
\* zero, and sets the available bytes to the heap capacity minus the
\* epilogue length.
C16_ResetLayoutAndCounts ==
    /\ TwoBlockLayout(allocator_reset(alloc))
    /\ EventCountsZero(allocator_reset(alloc))
    /\ allocator_reset(alloc).available = HEAP_SIZE - HEAP_ALIGN

\* C16 witness: a reset has just been applied to a heap on which the whole
\* allocation budget had been handed out; words between the two tags of
\* the free block still hold tags of the earlier blocks.
C16_Witness ==
    /\ calls = MaxOps
    /\ alloc.allocations = 0
    /\ alloc.deallocations = 0
    /\ ptrs = {}
    /\ InitialLayout
    /\ \E o \in Offsets : 0 < o /\ o < Epilogue - TagSize /\ alloc.heap[o] # 0

\* C17: with requests of any 16-bit length and deallocations of live
\* pointers, every call terminates: every block met on a walk has a
\* positive length, so the walk advances, and no allocate call is left
\* searching forever.
C17_EveryCallTerminates ==
    /\ misuse # "hang"
    /\ \A i \in 1..Len(Blocks) : Blocks[i].length > 0
    /\ \A n \in Requests \cup BigRequests : ~allocate_hangs(alloc, n)

\* What C18 expects of a successful allocate of n bytes that takes
\* allocator state `a` to `a2` and returns `ret`: the selected block, of
\* length L, is split at the required length R when L - R is at least the
\* alignment unit and taken whole when L = R.
SplitEffect(a, a2, ret, n) ==
    LET current == ret - TagSize
        before == unpack(a.heap[current])
        after == unpack(a2.heap[current])
        L == before.length
        R == Required(n)
    IN /\ ~before.alloc
       /\ after.alloc
       /\ after.p_alloc = before.p_alloc
       /\ L - R >= HEAP_ALIGN =>
             /\ after.length = R
             /\ unpack(a2.heap[current + R])
                   = [length |-> L - R, p_alloc |-> TRUE, alloc |-> FALSE]
       /\ L - R = 0 =>
             /\ after.length = L
             /\ unpack(a2.heap[current + L]).p_alloc
       /\ a2.available = a.available - after.length
       /\ a2.allocations = a.allocations + 1

\* C18: every successful allocate splits the selected free block at the
\* required length, or takes it whole when it has exactly that length,
\* lowers the available bytes by the allocated block's length and adds one
\* to the allocation count, however many blocks the search skipped.
C18_SplitAtRequired ==
    \A n \in Requests :
        allocate(alloc, n).ret # NULL =>
            SplitEffect(alloc, allocate(alloc, n).alloc, allocate(alloc, n).ret, n)

\* C19: on every heap that tiles, whose lengths, prev-allocated flags,
\* footers and epilogue are as the check requires, but that holds two
\* adjacent free blocks, the integrity check fails instead of returning.
C19_CheckRejectsAdjacentFree ==
    /\ (/\ C1_Tiling
        /\ C2_PrevAllocConsistent
        /\ C4_FooterEqualsHeader
        /\ C5_EpilogueFixed
        /\ ~C3_NoAdjacentFree) => ~allocator_check(alloc)
    /\ misuse = "check returned" => C3_NoAdjacentFree

\* C20: a request larger than the usable heap, up to the largest 16-bit
\* length, makes allocate return none with every heap word and counter
\* unchanged; no live block is smaller than its request and no block on
\* the walk has length zero.
C20_OversizeRejected ==
    /\ \A n \in BigRequests :
          /\ ~allocate_hangs(alloc, n)
          /\ allocate(alloc, n) = [alloc |-> alloc, ret |-> NULL]
    /\ \A l \in ptrs : HeaderOf(l.ptr).length - TagSize >= l.length
    /\ \A i \in 1..Len(Blocks) : Blocks[i].length # 0

====
